---- MODULE Spec2Model ----
(***************************************************************************)
(* State-machine model of the fantasy-book viewer:                         *)
(*   - the static route table of app-routing.module.ts, resolved the way   *)
(*     the Angular router resolves it (first match wins, one relative      *)
(*     redirect per navigation);                                           *)
(*   - one activation of BookSceneComponent (book.component.ts): its       *)
(*     lifecycle hooks, host listeners, the camera-state lookup callbacks, *)
(*     the asset loader callbacks and the requestAnimationFrame loop.      *)
(*                                                                         *)
(* Numbers.  Camera coordinates are integers (the default placement and    *)
(* the arrow-key step are integers).  A rotation is kept symbolically: the *)
(* identity, "looking from eye at the orbit target", or a rotation found   *)
(* in a persisted record.  An element of a 4x4 matrix is <<k>> for a plain *)
(* number k, and <<k, q>> for an element of the upper 3x3 rotation/scale   *)
(* block: the rotation q it belongs to and the scale k of its column.      *)
(***************************************************************************)
EXTENDS Integers, Sequences, FiniteSets, TLC

\* ------------------------------------------------------------------ bounds
\* window events (key-up, resize, beforeunload) delivered in one activation
MaxEvents == 2

\* ------------------------------------------------------- program constants
\* camera.position.x += 5 and its three siblings
KeyStep == 5
\* this.loadingProgress -= 5 while loadingState is set
ProgressOffset == 5
\* public loadingProgress: number | null = 1
InitialProgress == 1

\* --------------------------------------------------------- vectors, values
Zero3 == <<0, 0, 0>>
One3 == <<1, 1, 1>>

\* this.camera.position.set(15, 30, 70)
DefaultPosition == <<15, 30, 70>>

\* rotations (THREE.Quaternion), kept symbolically
IdentityQuat == <<"identity">>
OtherQuat == <<"other">>
NoRot == <<"none">>

\* the rotation Object3D.lookAt(at) gives a camera placed at eye; at is
\* "origin" (the target a new OrbitControls starts with) or "target"
\* (controls.target.set(0, 0.5, 0))
LookAt(eye, at) == <<"lookAt", eye, at>>

\* a plain number as a matrix / array element
Num(n) == <<n>>
\* an element of the rotation/scale block: rotation q, column scale k
Block(q, k) == <<k, q>>
\* what reading past the end of an array yields (undefined)
UndefinedElem == <<0, <<"undefined">>>>

\* the number in an element, and the rotation it belongs to
ElemK(e) == e[1]
ElemRot(e) == IF Len(e) = 2 THEN e[2] ELSE NoRot

\* Matrix4.compose(position, quaternion, scale), elements in column-major order
Compose(p, q, s) ==
  << Block(q, s[1]), Block(q, s[1]), Block(q, s[1]), Num(0),
     Block(q, s[2]), Block(q, s[2]), Block(q, s[2]), Num(0),
     Block(q, s[3]), Block(q, s[3]), Block(q, s[3]), Num(0),
     Num(p[1]), Num(p[2]), Num(p[3]), Num(1) >>

\* Matrix4.decompose(position, quaternion, scale): translation from the last
\* column, scale from the three axis columns, rotation from the scaled block
Decompose(te) ==
  [position |-> <<ElemK(te[13]), ElemK(te[14]), ElemK(te[15])>>,
   quaternion |-> ElemRot(te[1]),
   scale |-> <<ElemK(te[1]), ElemK(te[5]), ElemK(te[9])>>]

\* Matrix4.toArray(): the 16 elements as a fresh array
ToArray(te) == [i \in 1..16 |-> te[i]]

\* Matrix4.fromArray(array): reads array[0..15]
FromArray(arr) == [i \in 1..16 |-> IF i <= Len(arr) THEN arr[i] ELSE UndefinedElem]

\* ------------------------------------------------------------------- JSON
\* A text is a sequence of tokens; the empty text is the empty string.
LB == <<"[">>
RB == <<"]">>
COMMA == <<",">>
NumTok(e) == <<"n", e>>

RECURSIVE JoinTokens(_)
\* the elements of an array separated by commas
JoinTokens(arr) ==
  IF arr = <<>> THEN <<>>
  ELSE IF Len(arr) = 1 THEN <<NumTok(arr[1])>>
  ELSE <<NumTok(arr[1]), COMMA>> \o JoinTokens(Tail(arr))

\* JSON.stringify(number[])
JSONstringify(arr) == <<LB>> \o JoinTokens(arr) \o <<RB>>

RECURSIVE ParseItems(_)
\* the items of "n,n,...,n"; ok is FALSE on a syntax error
ParseItems(toks) ==
  IF toks = <<>> THEN [ok |-> FALSE, value |-> <<>>]
  ELSE IF toks[1][1] # "n" THEN [ok |-> FALSE, value |-> <<>>]
  ELSE IF Len(toks) = 1 THEN [ok |-> TRUE, value |-> <<toks[1][2]>>]
  ELSE IF toks[2] # COMMA THEN [ok |-> FALSE, value |-> <<>>]
  ELSE LET rest == ParseItems(SubSeq(toks, 3, Len(toks)))
       IN  IF rest.ok THEN [ok |-> TRUE, value |-> <<toks[1][2]>> \o rest.value]
           ELSE rest

\* JSON.parse(text) for array texts; ok = FALSE stands for the SyntaxError thrown
JSONparse(text) ==
  IF Len(text) < 2 \/ text[1] # LB \/ text[Len(text)] # RB
    THEN [ok |-> FALSE, value |-> <<>>]
  ELSE IF Len(text) = 2 THEN [ok |-> TRUE, value |-> <<>>]
  ELSE ParseItems(SubSeq(text, 2, Len(text) - 1))

\* a value of type string | null | undefined
Undefined == [tag |-> "undefined", text |-> <<>>]
Null == [tag |-> "null", text |-> <<>>]
Str(text) == [tag |-> "string", text |-> text]

\* JavaScript truthiness of a string | null | undefined
Truthy(v) == v.tag = "string" /\ v.text # <<>>

\* ---------------------------------------------------------------- ratios
RECURSIVE GCD(_, _)
GCD(a, b) == IF b = 0 THEN a ELSE GCD(b, a % b)

\* clientWidth / clientHeight as a fraction in lowest terms
Ratio(size) == LET g == GCD(size[1], size[2]) IN <<size[1] \div g, size[2] \div g>>

\* ----------------------------------------------------------------- router
\* The views a path can resolve to.  "scene" is the lazily loaded module
\* whose default child is BookSceneComponent.
Views == {"about", "scene", "notFound"}

\* routes with the wildcard redirect declared first
routes_WildcardFirst ==
  << [path |-> <<"**">>, pathMatch |-> "prefix", view |-> "", redirectTo |-> <<"404">>, isRedirect |-> TRUE],
     [path |-> <<"about">>, pathMatch |-> "prefix", view |-> "about", redirectTo |-> <<>>, isRedirect |-> FALSE],
     [path |-> <<"scene">>, pathMatch |-> "prefix", view |-> "scene", redirectTo |-> <<>>, isRedirect |-> FALSE],
     [path |-> <<"404">>, pathMatch |-> "prefix", view |-> "notFound", redirectTo |-> <<>>, isRedirect |-> FALSE],
     [path |-> <<>>, pathMatch |-> "full", view |-> "", redirectTo |-> <<"scene">>, isRedirect |-> TRUE] >>

\* const routes: Routes = [...], in declaration order
routes ==
  << [path |-> <<"about">>, pathMatch |-> "prefix", view |-> "about", redirectTo |-> <<>>, isRedirect |-> FALSE],
     [path |-> <<"scene">>, pathMatch |-> "prefix", view |-> "scene", redirectTo |-> <<>>, isRedirect |-> FALSE],
     [path |-> <<"404">>, pathMatch |-> "prefix", view |-> "notFound", redirectTo |-> <<>>, isRedirect |-> FALSE],
     [path |-> <<>>, pathMatch |-> "full", view |-> "", redirectTo |-> <<"scene">>, isRedirect |-> TRUE],
     [path |-> <<"**">>, pathMatch |-> "prefix", view |-> "", redirectTo |-> <<"404">>, isRedirect |-> TRUE] >>

\* whether the leading segments of segs equal the segments of path
SegmentsMatch(path, segs) ==
  /\ Len(path) <= Len(segs)
  /\ \A i \in 1..Len(path) : path[i] = segs[i]

\* the router's match of one route against the remaining segments:
\* '**' takes everything, '' takes nothing (and with pathMatch 'full' only
\* matches an empty remainder), any other path is compared segment by segment
Match(route, segs) ==
  IF route.path = <<"**">> THEN [matched |-> TRUE, consumed |-> Len(segs)]
  ELSE IF route.path = <<>>
    THEN [matched |-> ~(route.pathMatch = "full" /\ segs # <<>>), consumed |-> 0]
  ELSE IF route.pathMatch = "full" /\ Len(route.path) < Len(segs)
    THEN [matched |-> FALSE, consumed |-> 0]
  ELSE [matched |-> SegmentsMatch(route.path, segs), consumed |-> Len(route.path)]

RECURSIVE Expand(_, _, _, _)
\* first-match-wins expansion of segs against routes[i..]; a relative
\* redirect restarts the expansion with redirects switched off; a route with
\* a view matches only when it consumes every segment.  The result is the
\* view, the URL the navigation ends on and the redirects taken.
Expand(segs, i, allowRedirects, redirects) ==
  IF i > Len(routes) THEN [view |-> "noMatch", url |-> segs, redirects |-> redirects]
  ELSE
    LET route == routes[i]
        m == Match(route, segs)
        rest == SubSeq(segs, m.consumed + 1, Len(segs))
        next == Expand(segs, i + 1, allowRedirects, redirects)
    IN  IF ~m.matched THEN next
        ELSE IF route.isRedirect
          THEN IF ~allowRedirects THEN next
               ELSE LET to == Expand(route.redirectTo \o rest, 1, FALSE, redirects + 1)
                    IN  IF to.view = "noMatch" THEN next ELSE to
        ELSE IF rest = <<>>
          THEN [view |-> route.view, url |-> segs, redirects |-> redirects]
        ELSE next

\* the view a path lands on, the final URL and the redirects taken
Resolve(segs) == Expand(segs, 1, TRUE, 0)

\* the paths navigated to
Paths ==
  { <<>>, <<"about">>, <<"scene">>, <<"404">>, <<"foo">>, <<"about", "x">> }

\* the resolution of every path, computed once
Resolved == [path \in Paths |-> Resolve(path)]

\* ---------------------------------------------------------- environment
\* window.innerWidth x window.innerHeight
WindowSizes == { <<800, 600>>, <<1600, 900>> }
\* canvas.clientWidth x canvas.clientHeight as measured by a handler
CanvasSizes == { <<400, 300>>, <<1600, 900>> }
\* event.key of a key-up event: the four KEY_CODE arrows and one other key
Keys == {"ArrowRight", "ArrowLeft", "ArrowUp", "ArrowDown", "a"}
\* xhr.total of a progress event (a power of two: loaded / total is exact)
Totals == {2}

\* a transform as BookSceneComponent writes it: aimed at the orbit target
AimedTransform == Compose(<<20, 30, 70>>, LookAt(<<20, 30, 70>>, "target"), One3)
\* a transform with a rotation and a scale of its own
FreeTransform == Compose(<<-5, 10, 40>>, OtherQuat, <<2, 2, 2>>)

\* ISceneState | null as the persistence service holds it
NoRecord == [isNull |-> TRUE, cameraPosition |-> Null]
Record(cameraPosition) == [isNull |-> FALSE, cameraPosition |-> cameraPosition]

\* the persisted records an activation can start from
InitialRecords ==
  { NoRecord, Record(Null), Record(Str(<<>>)),
    Record(Str(JSONstringify(ToArray(AimedTransform)))),
    Record(Str(JSONstringify(ToArray(FreeTransform)))) }

\* persisted records whose cameraPosition is malformed: a text JSON.parse
\* rejects ("["), and an array text of two numbers instead of sixteen
MalformedRecords ==
  { Record(Str(<<LB>>)),
    Record(Str(JSONstringify(<<Num(1), Num(2)>>))) }

\* --------------------------------------------------------------- objects
\* private camera!: THREE.PerspectiveCamera, before createScene
NoCamera ==
  [exists |-> FALSE, position |-> Zero3, quaternion |-> IdentityQuat, scale |-> One3,
   matrix |-> Compose(Zero3, IdentityQuat, One3), aspect |-> <<1, 1>>]

\* new THREE.PerspectiveCamera(100, aspect, 1, 1000)
PerspectiveCamera(aspect) ==
  [exists |-> TRUE, position |-> Zero3, quaternion |-> IdentityQuat, scale |-> One3,
   matrix |-> Compose(Zero3, IdentityQuat, One3), aspect |-> aspect]

\* Object3D.updateMatrix(): matrix.compose(position, quaternion, scale)
UpdateMatrix(cam) ==
  [cam EXCEPT !.matrix = Compose(cam.position, cam.quaternion, cam.scale)]

\* OrbitControls.update() with no pointer input: the position is rebuilt
\* from its spherical coordinates around the target (unchanged on the integer
\* grid), then camera.lookAt(target), which first recomposes camera.matrix
\* and then aims the quaternion at the target
ControlsUpdate(cam, at) ==
  [UpdateMatrix(cam) EXCEPT !.quaternion = LookAt(cam.position, at)]

\* renderer.render(scene, camera): camera.updateMatrixWorld() recomposes
\* camera.matrix from position, quaternion and scale
RendererRender(cam) == UpdateMatrix(cam)

\* private renderer!: THREE.WebGLRenderer, before createRenderer
NoRenderer == [exists |-> FALSE, size |-> <<0, 0>>, disposed |-> FALSE]

\* public loadingProgress: number | null
NullProgress == [isNull |-> TRUE, value |-> 0]
Progress(n) == [isNull |-> FALSE, value |-> n]

\* (xhr.loaded / xhr.total) * 100
Percent(loaded, total) == (loaded * 100) \div total

VARIABLES
  url, view,
  phase, lookup, yielded, store, reads, writes,
  cameraState, loadingState, loadingProgress,
  camera, renderer, controls, dracoLoader, pmremGenerator,
  load, modelInScene, mixer, rafPending,
  events, moved

routerVars == <<url, view>>
serviceVars == <<store, reads, writes>>
sceneVars == <<camera, renderer, controls, dracoLoader, pmremGenerator>>
loaderVars == <<load, modelInScene, mixer, loadingProgress>>
vars ==
  <<url, view, phase, lookup, yielded, store, reads, writes,
    cameraState, loadingState, loadingProgress,
    camera, renderer, controls, dracoLoader, pmremGenerator,
    load, modelInScene, mixer, rafPending,
    events, moved>>

\* The application has bootstrapped and no navigation has happened yet; the
\* component fields hold their initialisers.
Init ==
  /\ url = <<>>
  /\ view = "none"
  /\ phase = "absent"
  /\ lookup = "idle"
  /\ yielded = NoRecord
  /\ store \in InitialRecords
  /\ reads = 0
  /\ writes = <<>>
  /\ cameraState = Undefined
  /\ loadingState = TRUE
  /\ loadingProgress = Progress(InitialProgress)
  /\ camera = NoCamera
  /\ renderer = NoRenderer
  /\ controls = "none"
  /\ dracoLoader = "none"
  /\ pmremGenerator = "none"
  /\ load = "none"
  /\ modelInScene = FALSE
  /\ mixer = FALSE
  /\ rafPending = 0
  /\ events = 0
  /\ moved = FALSE

\* The same start with a malformed record in the persistence service.
InitMalformed ==
  /\ url = <<>>
  /\ view = "none"
  /\ phase = "absent"
  /\ lookup = "idle"
  /\ yielded = NoRecord
  /\ store \in MalformedRecords
  /\ reads = 0
  /\ writes = <<>>
  /\ cameraState = Undefined
  /\ loadingState = TRUE
  /\ loadingProgress = Progress(InitialProgress)
  /\ camera = NoCamera
  /\ renderer = NoRenderer
  /\ controls = "none"
  /\ dracoLoader = "none"
  /\ pmremGenerator = "none"
  /\ load = "none"
  /\ modelInScene = FALSE
  /\ mixer = FALSE
  /\ rafPending = 0
  /\ events = 0
  /\ moved = FALSE

\* ------------------------------------------------- BookSceneComponent
\* KEY_CODE of client/app/share: the key names of the four arrows
KEY_CODE ==
  [RIGHT_ARROW |-> "ArrowRight", LEFT_ARROW |-> "ArrowLeft",
   UP_ARROW |-> "ArrowUp", DOWN_ARROW |-> "ArrowDown"]

\* setCameraState without its else branch: no default placement
setCameraState_NoDefault(cam, cs) ==
  IF Truthy(cs)
    THEN LET parsed == JSONparse(cs.text)
             te == FromArray(parsed.value)
             d == Decompose(te)
         IN  IF ~parsed.ok THEN [threw |-> TRUE, camera |-> cam]
             ELSE [threw |-> FALSE,
                   camera |-> [cam EXCEPT !.matrix = te, !.position = d.position,
                                          !.quaternion = d.quaternion, !.scale = d.scale]]
    ELSE [threw |-> FALSE, camera |-> cam]

\* private setCameraState(): the camera afterwards; threw stands for the
\* SyntaxError of JSON.parse, which leaves the camera as it was
setCameraState(cam, cs) ==
  IF Truthy(cs)
    THEN LET parsed == JSONparse(cs.text)
             te == FromArray(parsed.value)
             d == Decompose(te)
         IN  IF ~parsed.ok THEN [threw |-> TRUE, camera |-> cam]
             ELSE [threw |-> FALSE,
                   camera |-> [cam EXCEPT !.matrix = te, !.position = d.position,
                                          !.quaternion = d.quaternion, !.scale = d.scale]]
    ELSE [threw |-> FALSE, camera |-> [cam EXCEPT !.position = DefaultPosition]]

\* private createControls(): new OrbitControls(...) updates once against its
\* initial target, controls.target.set(0, 0.5, 0), then controls.update()
createControls(cam) == ControlsUpdate(ControlsUpdate(cam, "origin"), "target")

\* the body of render() in animate(): mixer.update, controls.update,
\* renderer.render
renderFrame(cam) == RendererRender(ControlsUpdate(cam, "target"))

\* a saved text that holds the three position coordinates only
SavedText_PositionOnly(cam) ==
  JSONstringify(<<Num(cam.position[1]), Num(cam.position[2]), Num(cam.position[3])>>)

\* the text saveCurrentScene() hands to the service
SavedText(cam) == JSONstringify(ToArray(cam.matrix))

\* SceneService.setCameraState(text): the persisted record is replaced
ServiceSetCameraState(text) == Record(Str(text))

\* private saveCurrentScene(): one write of the camera matrix; reading
\* this.camera.matrix throws when no camera was constructed
saveCurrentScene ==
  IF camera.exists
    THEN /\ writes' = Append(writes, SavedText(camera))
         /\ store' = ServiceSetCameraState(SavedText(camera))
         /\ reads' = reads
    ELSE UNCHANGED serviceVars

\* KeyMove with the left arrow adding to x instead of subtracting
KeyMove_LeftAdds(pos, key) ==
  CASE key = KEY_CODE.RIGHT_ARROW -> <<pos[1] + KeyStep, pos[2], pos[3]>>
    [] key = KEY_CODE.LEFT_ARROW -> <<pos[1] + KeyStep, pos[2], pos[3]>>
    [] key = KEY_CODE.UP_ARROW -> <<pos[1], pos[2] + KeyStep, pos[3]>>
    [] key = KEY_CODE.DOWN_ARROW -> <<pos[1], pos[2] - KeyStep, pos[3]>>
    [] OTHER -> pos

\* the camera position after a key-up event with this key
KeyMove(pos, key) ==
  CASE key = KEY_CODE.RIGHT_ARROW -> <<pos[1] + KeyStep, pos[2], pos[3]>>
    [] key = KEY_CODE.LEFT_ARROW -> <<pos[1] - KeyStep, pos[2], pos[3]>>
    [] key = KEY_CODE.UP_ARROW -> <<pos[1], pos[2] + KeyStep, pos[3]>>
    [] key = KEY_CODE.DOWN_ARROW -> <<pos[1], pos[2] - KeyStep, pos[3]>>
    [] OTHER -> pos

\* a key handler that also persists the camera after moving it
keyEvent_Saves(key) ==
  /\ phase = "viewInit"
  /\ events < MaxEvents
  /\ events' = events + 1
  /\ camera' = IF ~camera.exists THEN camera
               ELSE [camera EXCEPT !.position = KeyMove(camera.position, key)]
  /\ moved' = (moved \/ camera'.position # camera.position)
  /\ saveCurrentScene
  /\ UNCHANGED <<routerVars, phase, lookup, yielded, cameraState, loadingState,
                 loaderVars, renderer, controls, dracoLoader, pmremGenerator,
                 rafPending>>

\* @HostListener('window:keyup') keyEvent(event)
keyEvent(key) ==
  /\ phase = "viewInit"
  /\ events < MaxEvents
  /\ events' = events + 1
  /\ camera' = IF ~camera.exists THEN camera
               ELSE [camera EXCEPT !.position = KeyMove(camera.position, key)]
  /\ moved' = (moved \/ camera'.position # camera.position)
  /\ UNCHANGED <<routerVars, serviceVars, phase, lookup, yielded, cameraState, loadingState,
                 loaderVars, renderer, controls, dracoLoader, pmremGenerator,
                 rafPending>>

\* onResize taking the aspect ratio from the window instead of the canvas
onResize_WindowAspect(win, canvas) ==
  /\ phase = "viewInit"
  /\ events < MaxEvents
  /\ events' = events + 1
  /\ IF ~camera.exists \/ ~renderer.exists
       THEN UNCHANGED <<camera, renderer>>
       ELSE /\ camera' = [camera EXCEPT !.aspect = Ratio(win)]
            /\ renderer' = [renderer EXCEPT !.size = win]
  /\ UNCHANGED <<routerVars, serviceVars, phase, lookup, yielded, cameraState,
                 loadingState, loaderVars, controls, dracoLoader, pmremGenerator,
                 rafPending, moved>>

\* @HostListener('window:resize') onResize(): window.innerWidth x innerHeight
\* is win and the canvas measures canvas when the handler runs
onResize(win, canvas) ==
  /\ phase = "viewInit"
  /\ events < MaxEvents
  /\ events' = events + 1
  /\ IF ~camera.exists \/ ~renderer.exists
       THEN UNCHANGED <<camera, renderer>>
       ELSE /\ camera' = [camera EXCEPT !.aspect = Ratio(canvas)]
            /\ renderer' = [renderer EXCEPT !.size = win]
  /\ UNCHANGED <<routerVars, serviceVars, phase, lookup, yielded, cameraState, loadingState,
                 loaderVars, controls, dracoLoader, pmremGenerator, rafPending, moved>>

\* @HostListener('window:beforeunload') beforeunloadHandler()
beforeunloadHandler ==
  /\ phase = "viewInit"
  /\ events < MaxEvents
  /\ events' = events + 1
  /\ saveCurrentScene
  /\ UNCHANGED <<routerVars, phase, lookup, yielded, cameraState, loadingState, loaderVars,
                 sceneVars, rafPending, moved>>

\* ngOnInit(): issues the one camera-state lookup of the activation
ngOnInit ==
  /\ phase = "constructed"
  /\ phase' = "inited"
  /\ reads' = reads + 1
  /\ lookup' = "pending"
  /\ UNCHANGED <<yielded, routerVars, store, writes, cameraState, loadingState, loaderVars,
                 sceneVars, rafPending, moved, events>>

\* the next callback of the lookup: state?.cameraPosition || null
NextCameraState(state) ==
  IF ~state.isNull /\ Truthy(state.cameraPosition) THEN state.cameraPosition ELSE Null

\* a complete callback that leaves an existing camera where it stands
Complete_KeepsCamera(cs) ==
  /\ loadingState' = FALSE
  /\ camera' = camera
  /\ moved' = moved

\* the complete callback of the lookup, with cs the cameraState it finds:
\* loadingState = false; this.camera ? this.setCameraState() : null
Complete(cs) ==
  /\ loadingState' = FALSE
  /\ camera' = IF camera.exists THEN setCameraState(camera, cs).camera ELSE camera
  /\ moved' = IF camera.exists /\ ~setCameraState(camera, cs).threw THEN FALSE ELSE moved

\* the lookup emits the persisted record: next, then (take(1)) complete
LookupNext ==
  /\ lookup = "pending"
  /\ lookup' = "next"
  /\ yielded' = store
  /\ cameraState' = NextCameraState(store)
  /\ Complete(NextCameraState(store))
  /\ UNCHANGED <<routerVars, serviceVars, phase, loaderVars, renderer, controls,
                 dracoLoader, pmremGenerator, rafPending, events>>

\* the lookup completes without emitting a value: complete only
LookupEmpty ==
  /\ lookup = "pending"
  /\ lookup' = "empty"
  /\ Complete(cameraState)
  /\ UNCHANGED <<yielded, routerVars, serviceVars, phase, cameraState, loaderVars, renderer,
                 controls, dracoLoader, pmremGenerator, rafPending, events>>

\* the lookup fails: the error callback (error) => {} runs, complete does not
LookupError ==
  /\ lookup = "pending"
  /\ lookup' = "errored"
  /\ UNCHANGED <<yielded, routerVars, serviceVars, phase, cameraState, loadingState, loaderVars,
                 sceneVars, rafPending, moved, events>>

\* ngAfterViewInit with createLoader called first: the load is issued even
\* when createRenderer then throws
ngAfterViewInit_LoaderFirst(webgl, canvas) ==
  /\ phase = "inited"
  /\ phase' = "viewInit"
  /\ load' = "loading"
  /\ IF ~webgl
       THEN UNCHANGED sceneVars
       ELSE LET placed == setCameraState(PerspectiveCamera(Ratio(canvas)), cameraState)
            IN  /\ renderer' = [exists |-> TRUE, size |-> canvas, disposed |-> FALSE]
                /\ pmremGenerator' = "live"
                /\ dracoLoader' = "live"
                /\ IF placed.threw
                     THEN /\ camera' = placed.camera
                          /\ UNCHANGED controls
                     ELSE /\ camera' = createControls(placed.camera)
                          /\ controls' = "live"
  /\ UNCHANGED <<routerVars, serviceVars, lookup, yielded, cameraState, loadingState,
                 modelInScene, mixer, loadingProgress, rafPending, moved, events>>

\* ngAfterViewInit(): createRenderer, createScene, createControls,
\* createLoader.  webgl = FALSE: new THREE.WebGLRenderer throws (no WebGL
\* context) and nothing is constructed.  A SyntaxError in setCameraState
\* leaves the renderer and the new camera, and skips controls and loader.
ngAfterViewInit(webgl, canvas) ==
  /\ phase = "inited"
  /\ phase' = "viewInit"
  /\ IF ~webgl
       THEN UNCHANGED <<sceneVars, load>>
       ELSE LET placed == setCameraState(PerspectiveCamera(Ratio(canvas)), cameraState)
            IN  /\ renderer' = [exists |-> TRUE, size |-> canvas, disposed |-> FALSE]
                /\ pmremGenerator' = "live"
                /\ IF placed.threw
                     THEN /\ camera' = placed.camera
                          /\ UNCHANGED <<controls, dracoLoader, load>>
                     ELSE /\ camera' = createControls(placed.camera)
                          /\ controls' = "live"
                          /\ dracoLoader' = "live"
                          /\ load' = "loading"
  /\ UNCHANGED <<routerVars, serviceVars, lookup, yielded, cameraState, loadingState,
                 modelInScene, mixer, loadingProgress, rafPending, moved, events>>

\* the progress callback of loader.load
LoadProgress(loaded, total) ==
  /\ load = "loading"
  /\ loadingProgress' =
       Progress(Percent(loaded, total) - (IF loadingState THEN ProgressOffset ELSE 0))
  /\ UNCHANGED <<routerVars, serviceVars, phase, lookup, yielded, cameraState, loadingState,
                 sceneVars, load, modelInScene, mixer, rafPending, moved, events>>

\* the load callback of loader.load, for an asset with clips animation
\* clips: scene.add, new AnimationMixer, clipAction(animations[0]).play()
\* (a TypeError when animations[0] is undefined, which ends the callback),
\* animate() (the first frame, which requests its successor), loadingProgress = null
LoadSuccess(clips) ==
  /\ load = "loading"
  /\ load' = "loaded"
  /\ modelInScene' = TRUE
  /\ mixer' = TRUE
  /\ IF clips = 0
       THEN UNCHANGED <<rafPending, camera, loadingProgress>>
       ELSE /\ rafPending' = rafPending + 1
            /\ camera' = renderFrame(camera)
            /\ loadingProgress' = NullProgress
  /\ UNCHANGED <<routerVars, serviceVars, phase, lookup, yielded, cameraState, loadingState,
                 renderer, controls, dracoLoader, pmremGenerator, moved, events>>

\* an error callback that hides the progress indicator as the load callback does
LoadError_ClearsProgress ==
  /\ load = "loading"
  /\ load' = "failed"
  /\ loadingProgress' = NullProgress
  /\ UNCHANGED <<routerVars, serviceVars, phase, lookup, yielded, cameraState, loadingState,
                 sceneVars, modelInScene, mixer, rafPending, moved, events>>

\* the error callback of loader.load: console.log(error)
LoadError ==
  /\ load = "loading"
  /\ load' = "failed"
  /\ UNCHANGED <<routerVars, serviceVars, phase, lookup, yielded, cameraState, loadingState,
                 sceneVars, modelInScene, mixer, loadingProgress, rafPending, moved,
                 events>>

\* a frame callback that requests two successors
render_TwoSuccessors ==
  /\ rafPending > 0
  /\ rafPending' = (rafPending - 1) + 2
  /\ camera' = renderFrame(camera)
  /\ UNCHANGED <<routerVars, serviceVars, phase, lookup, yielded, cameraState, loadingState,
                 loaderVars, renderer, controls, dracoLoader, pmremGenerator, moved,
                 events>>

\* one run of a pending frame callback render(): the callback leaves the
\* queue, requests its one successor, then updates and renders
render ==
  /\ rafPending > 0
  /\ rafPending' = (rafPending - 1) + 1
  /\ camera' = renderFrame(camera)
  /\ UNCHANGED <<routerVars, serviceVars, phase, lookup, yielded, cameraState, loadingState,
                 loaderVars, renderer, controls, dracoLoader, pmremGenerator, moved,
                 events>>

\* ngOnDestroy(): saveCurrentScene, then the four dispose calls in order;
\* the first call on an object that was never constructed throws and ends it
ngOnDestroy ==
  /\ phase' = "destroyed"
  /\ saveCurrentScene
  /\ IF ~camera.exists
       THEN UNCHANGED <<renderer, controls, dracoLoader, pmremGenerator>>
       ELSE /\ renderer' = [renderer EXCEPT !.disposed = TRUE]
            /\ IF controls = "none"
                 THEN UNCHANGED <<controls, dracoLoader, pmremGenerator>>
                 ELSE /\ controls' = "disposed"
                      /\ dracoLoader' = "disposed"
                      /\ pmremGenerator' = "disposed"
  /\ UNCHANGED <<camera, rafPending>>

\* A navigation to path: the router resolves it against routes and the URL
\* becomes the one the redirects end on.  Entering the scene view constructs
\* the component, leaving it destroys the component.  The hooks of a new
\* component run before the next navigation, and the model follows one
\* activation of the scene view up to the navigation that ends it.
Navigate(path) ==
  /\ phase \in {"absent", "viewInit"}
  /\ UNCHANGED <<lookup, yielded, cameraState, loadingState, loaderVars, events, moved>>
  /\ url' = Resolved[path].url
  /\ view' = Resolved[path].view
  /\ IF view = "scene" /\ Resolved[path].view # "scene"
       THEN ngOnDestroy
       ELSE /\ phase' = IF view # "scene" /\ Resolved[path].view = "scene"
                          THEN "constructed" ELSE phase
            /\ UNCHANGED <<serviceVars, sceneVars, rafPending>>

Next ==
  \/ \E path \in Paths : Navigate(path)
  \/ ngOnInit
  \/ LookupNext
  \/ LookupEmpty
  \/ LookupError
  \/ \E webgl \in BOOLEAN, canvas \in CanvasSizes : ngAfterViewInit(webgl, canvas)
  \/ \E key \in Keys : keyEvent(key)
  \/ \E win \in WindowSizes, canvas \in CanvasSizes : onResize(win, canvas)
  \/ beforeunloadHandler
  \/ \E total \in Totals : \E loaded \in 0..total : LoadProgress(loaded, total)
  \/ \E clips \in 0..1 : LoadSuccess(clips)
  \/ LoadError
  \/ render

Spec == Init /\ [][Next]_vars

\* the activations that start from a malformed persisted record
SpecMalformed == InitMalformed /\ [][Next]_vars

\* ---------------------------------------------------------------- claims
\* the lookup has finished and found no prior state: it failed, completed
\* without a value, or yielded null or a record with no camera position
NoPriorState ==
  \/ lookup \in {"errored", "empty"}
  \/ lookup = "next" /\ (yielded.isNull \/ ~Truthy(yielded.cameraPosition))

\* a record holding a text of exactly 16 numbers
HoldsTransform(record) ==
  /\ ~record.isNull
  /\ Truthy(record.cameraPosition)
  /\ JSONparse(record.cameraPosition.text).ok
  /\ Len(JSONparse(record.cameraPosition.text).value) = 16

\* the lookup has yielded a transform and the camera has been constructed
Restored(lk, record, cam) == lk = "next" /\ HoldsTransform(record) /\ cam.exists

\* position, rotation and scale encoded by a text of 16 numbers
Decoded(text) == Decompose(FromArray(JSONparse(text).value))

\* C1: in one activation, whatever teardown triggers arrive (page-unload
\* events, navigation away), no more than one persistence write is issued in
\* total, and no more than one persistence read.
C1_AtMostOneWrite == Len(writes) <= 1 /\ reads <= 1

\* C2: once the component is destroyed no frame callback is scheduled, so no
\* further frame update can run.
C2_NoFrameAfterDisposal == phase = "destroyed" => rafPending = 0

\* C3: every persistence write carries the camera position of the moment it
\* is issued, whether or not a frame has run since the position changed.
C3_WriteIsCurrentPosition ==
  [][Len(writes') = Len(writes) + 1
       => Decoded(writes'[Len(writes')]).position = camera.position]_vars

\* C4: the step after which both the lookup has yielded a transform T and the
\* camera exists leaves the camera with the position, rotation and scale
\* encoded by T, in either order of lookup completion and view initialisation.
C4_RoundTrip ==
  [][(~Restored(lookup, yielded, camera) /\ Restored(lookup', yielded', camera'))
       => /\ camera'.position = Decoded(yielded'.cameraPosition.text).position
          /\ camera'.quaternion = Decoded(yielded'.cameraPosition.text).quaternion
          /\ camera'.scale = Decoded(yielded'.cameraPosition.text).scale]_vars

\* C5 as first stated: the asset load is never issued while the camera-state
\* lookup is still outstanding.
C5_LoadWaitsForLookup == load # "none" => lookup # "pending"

\* C5, amended: the asset load is issued by view initialisation, whether or
\* not the lookup has completed, and never before the renderer, the camera
\* and the controls have been constructed.
C5_LoadAfterSurface ==
  load # "none"
    => /\ phase \in {"viewInit", "destroyed"}
       /\ renderer.exists
       /\ camera.exists
       /\ controls # "none"

\* the asset load is in flight while the lookup is still outstanding
C5_Witness == load = "loading" /\ lookup = "pending" /\ camera.exists

\* C6: a progress event that arrives after the lookup has finished, by
\* success or by failure, sets loadingProgress to loaded / total * 100.
C6_ProgressExactAfterLookup ==
  [][\A total \in Totals : \A loaded \in 0..total :
       (LoadProgress(loaded, total) /\ lookup \in {"next", "empty", "errored"})
         => /\ ~loadingProgress'.isNull
            /\ loadingProgress'.value * total = loaded * 100]_vars

\* C7: with no prior state, a constructed camera that no key event has moved
\* since its placement stands at (15, 30, 70).
C7_DefaultPosition ==
  (camera.exists /\ NoPriorState /\ ~moved) => camera.position = <<15, 30, 70>>

\* the lookup yielded null after the camera was constructed and after a
\* window event, and the camera stands where the placement put it
C7_Witness ==
  /\ camera.exists
  /\ lookup = "next"
  /\ yielded.isNull
  /\ events > 0
  /\ ~moved

\* C8: a key-up event moves an existing camera by 5 along one axis for an
\* arrow key (Right x+5, Left x-5, Up y+5, Down y-5) and not at all for any
\* other key; without a camera it changes no camera field.
C8_KeyEffect ==
  [][\A key \in Keys :
       keyEvent(key)
         => IF camera.exists
              THEN camera'.position =
                     CASE key = "ArrowRight" ->
                            <<camera.position[1] + 5, camera.position[2], camera.position[3]>>
                       [] key = "ArrowLeft" ->
                            <<camera.position[1] - 5, camera.position[2], camera.position[3]>>
                       [] key = "ArrowUp" ->
                            <<camera.position[1], camera.position[2] + 5, camera.position[3]>>
                       [] key = "ArrowDown" ->
                            <<camera.position[1], camera.position[2] - 5, camera.position[3]>>
                       [] OTHER -> camera.position
              ELSE camera' = camera]_vars

\* a left-arrow key-up has moved the default placement to x = 10
C8_Witness == camera.exists /\ moved /\ camera.position = <<10, 30, 70>>

\* the view the first statement of C9 gives a path: '' the scene view,
\* 'about' the about view, '404' and every other path the not-found view
C9_StatedView(path) ==
  IF path = <<>> THEN "scene" ELSE IF path = <<"about">> THEN "about" ELSE "notFound"

\* C9 as first stated: every navigation lands on the stated view after at
\* most one redirect.
C9_EveryOtherPathNotFound ==
  [][\A path \in Paths :
       Navigate(path) => view' = C9_StatedView(path) /\ Resolved[path].redirects <= 1]_vars

\* C9, amended: '' and 'scene' land on the scene view, 'about' on the about
\* view, '404' and every other path on the not-found view, each after at
\* most one redirect.
C9_RouteResolution ==
  [][\A path \in Paths :
       Navigate(path)
         => /\ view' = (IF path = <<"scene">> THEN "scene" ELSE C9_StatedView(path))
            /\ view' \in Views
            /\ Resolved[path].redirects <= 1]_vars

\* a navigation has ended on the not-found view while the scene was never
\* entered
C9_Witness == view = "notFound" /\ url = <<"404">> /\ phase = "absent"

\* C10: a resize event handled with camera and renderer in place sets the
\* camera aspect to width / height of the canvas and the renderer size to
\* the window size; without them it changes neither.
C10_ResizeEffect ==
  [][\A win \in WindowSizes : \A canvas \in CanvasSizes :
       onResize(win, canvas)
         => IF camera.exists /\ renderer.exists
              THEN /\ camera'.aspect[1] * canvas[2] = camera'.aspect[2] * canvas[1]
                   /\ renderer'.size = win
              ELSE camera' = camera /\ renderer' = renderer]_vars

\* a resize has left a 16:9 aspect taken from the canvas on an 800 x 600
\* render surface taken from the window
C10_Witness ==
  /\ camera.exists
  /\ camera.aspect = <<16, 9>>
  /\ renderer.size = <<800, 600>>

\* C11: every successful asset decode adds the model to the scene, starts
\* the frame loop and sets loadingProgress to null, whether the asset
\* carries an animation clip or none.
C11_DecodeEntersRunning ==
  [][\A clips \in 0..1 :
       LoadSuccess(clips)
         => /\ modelInScene'
            /\ rafPending' > 0
            /\ loadingProgress'.isNull]_vars

\* C12: after the asset load has failed the frame loop is not started,
\* loadingProgress is not null and keeps the value it had, and the load is
\* not issued again.
C12_FailedLoadStalls ==
  /\ [](load = "failed" => (rafPending = 0 /\ ~loadingProgress.isNull /\ ~modelInScene))
  /\ [][load = "failed" => (load' = "failed" /\ loadingProgress' = loadingProgress)]_vars

\* the load failed after a progress event had reported 45, and the
\* activation has ended with that value still shown
C12_Witness ==
  /\ load = "failed"
  /\ loadingProgress = Progress(45)
  /\ phase = "destroyed"

\* C13: when the lookup has yielded a malformed cameraPosition and the
\* renderer was constructed, the camera stands at the default position
\* (15, 30, 70) unless a key event moved it, and the controls and the asset
\* load were created, in either order of lookup completion and view
\* initialisation.
C13_FailsClosed ==
  (renderer.exists /\ lookup = "next" /\ ~HoldsTransform(yielded) /\ ~NoPriorState /\ ~moved)
    => /\ camera.position = <<15, 30, 70>>
       /\ controls # "none"
       /\ load # "none"

\* C14: a step that changes the persisted record or issues a write is a
\* teardown step, the page-unload handler or the destruction of the
\* component; lookup completion, view initialisation, loader callbacks,
\* frames, key events and resize events leave the record as it was.
C14_OnlyTeardownWrites ==
  [][(store' # store \/ writes' # writes)
       => \/ beforeunloadHandler
          \/ (phase = "viewInit" /\ phase' = "destroyed")]_vars

\* the lookup, the view initialisation, the load callback, frames and two
\* key events have all run and the record is still the one the lookup read
C14_Witness ==
  /\ writes = <<>>
  /\ store = yielded
  /\ lookup = "next"
  /\ load = "loaded"
  /\ rafPending > 0
  /\ moved
  /\ events = MaxEvents

\* a text that parses into an array of exactly 16 numbers
SixteenNumbers(text) ==
  LET parsed == JSONparse(text)
  IN  /\ parsed.ok
      /\ Len(parsed.value) = 16
      /\ \A i \in 1..16 : parsed.value[i] # UndefinedElem

\* C15: starting from an absent or valid record, the persisted record is
\* always absent (no record, or no camera position in it) or a text of
\* exactly 16 numbers, and the write issued last (so every write, when it
\* was issued) carries exactly 16 numbers.
C15_RecordWellFormed ==
  /\ \/ store.isNull
     \/ ~Truthy(store.cameraPosition)
     \/ SixteenNumbers(store.cameraPosition.text)
  /\ writes # <<>> => SixteenNumbers(writes[Len(writes)])

\* an activation that found no record has written one at teardown, after a
\* key event moved the camera
C15_Witness ==
  /\ lookup = "next"
  /\ yielded.isNull
  /\ moved
  /\ Len(writes) = 1
  /\ ~store.isNull
  /\ phase = "destroyed"

\* C16: loadingProgress is always null or a value within 0..100, also after
\* a progress event delivered while the lookup is outstanding.
C16_ProgressInRange ==
  loadingProgress.isNull \/ (0 <= loadingProgress.value /\ loadingProgress.value <= 100)

\* C17: when the lookup completes after the camera was constructed and
\* yields no prior state, the camera stands at (15, 30, 70) right after the
\* completion, whatever arrow-key events moved it before.
C17_LateCompletionResets ==
  [][((LookupNext \/ LookupEmpty) /\ camera.exists /\ ~Truthy(cameraState'))
       => camera'.position = <<15, 30, 70>>]_vars

\* one window event, a right-arrow key-up, moved the camera to x = 20, a
\* frame composed that position into the matrix, and the lookup then
\* completed with no prior state: the camera is back at the default
C17_Witness ==
  /\ events = 1
  /\ Decompose(camera.matrix).position = <<20, 30, 70>>
  /\ NoPriorState
  /\ lookup # "errored"
  /\ camera.position = <<15, 30, 70>>

\* C18: in one activation at most one frame callback is pending: the asset
\* load is issued once and ends once, the number of pending frame callbacks
\* changes only when the load callback starts the loop from none pending,
\* and each frame callback leaves exactly one successor.
C18_OneFrameLoop ==
  /\ [](rafPending <= 1)
  /\ [][load' # load
          => <<load, load'>> \in { <<"none", "loading">>, <<"loading", "loaded">>,
                                  <<"loading", "failed">> }]_vars
  /\ [][rafPending' # rafPending
          => (rafPending = 0 /\ load = "loading" /\ load' = "loaded")]_vars

\* the load callback has started the loop, two right-arrow key-ups moved the
\* camera, a frame has composed that position into the matrix, and exactly
\* one frame callback is pending
C18_Witness ==
  /\ rafPending = 1
  /\ load = "loaded"
  /\ camera.position = <<25, 30, 70>>
  /\ Decompose(camera.matrix).position = camera.position

====
